---- MODULE Spec2Model ----
(***************************************************************************)
(* The student REST handlers of routes/studentsRoutes.js over one document *)
(* collection.  Every handler issues exactly one call on the Student model *)
(* and turns its outcome into one JSON response.                           *)
(*                                                                         *)
(* Strings whose characters the code looks at (minMarks, courses, names,   *)
(* search patterns) are sequences of one-character strings; the empty      *)
(* sequence is the empty string, which JavaScript treats like an absent    *)
(* parameter (both are falsy).  Identifiers are integers: 1..MaxIds are    *)
(* well-formed ObjectIds, 0 stands for a path segment that is not one.     *)
(***************************************************************************)
EXTENDS Integers, Sequences, FiniteSets, TLC

VARIABLES
    store,      \* the collection: documents in natural (insertion) order
    used,       \* identifiers the collection has ever held
    clock,      \* the time of the latest insertion
    resp,       \* the request handled last and the response it got
    inflight,   \* requests being handled concurrently, each with its response
    nCreated,   \* history: documents inserted while no delete has succeeded
    deleted,    \* history: identifiers a delete request has removed
    recreated,  \* history: identifiers inserted again after a delete
    born,       \* history: identifier -> createdAt given at insertion
    base,       \* history: identifier -> document after its last non-operator write
    opCount     \* history: identifier -> operator-updates since base

vars == <<store, used, clock, resp, inflight, nCreated, deleted, recreated,
          born, base, opCount>>

hist == <<nCreated, deleted, recreated, born, base, opCount>>

----------------------------------------------------------------------------
(* Bounds *)

MaxIds == 2
MaxClock == 1
MaxOps == 2
MaxBulk == 2
MaxInflight == 3

Ids == 1..MaxIds
ReqIds == 0..MaxIds
WellFormed(id) == id \in Ids

----------------------------------------------------------------------------
(* Values *)

\* Stands for JavaScript's NaN and for any value that is no number.
NaN == -1

NULL == [null |-> TRUE]

An == <<"A", "n">>
Bo == <<"B", "o">>
CourseM == <<"M">>
CourseC == <<"C">>

\* Request bodies.  BodyA leaves the identifier to the store, BodyX carries
\* its own, BodyBad has a marks value that is no number.
BodyA == [name |-> An, marks |-> 40, course |-> CourseM, city |-> "Mumbai",
          subjects |-> <<"ML">>, enrolled |-> FALSE]
BodyX == [_id |-> 1, name |-> Bo, marks |-> 60, course |-> CourseM,
          city |-> "Mumbai", subjects |-> <<>>, enrolled |-> TRUE]
BodyBad == [name |-> An, marks |-> NaN, course |-> CourseM, city |-> "Pune",
            subjects |-> <<>>, enrolled |-> FALSE]

\* Request bodies of the two creation routes.
CreateBodies == { BodyA, BodyX, BodyBad }

\* Request bodies of the whole-update route.
UpdateBodies == { [marks |-> 50], [marks |-> NaN], [_id |-> 2], [createdAt |-> 0] }

\* Query strings of the filter route: <<minMarks, courses, city>>.
FilterRequests ==
    { << <<>>, <<>>, "" >>, << <<"5", "0">>, <<"M">>, "Mumbai" >>,
      << <<"x">>, <<>>, "" >> }

Patterns == { <<"a", "N">>, <<"(">> }

----------------------------------------------------------------------------
(* Sequence helpers *)

Range(s) == { s[i] : i \in 1..Len(s) }

RECURSIVE SumSeq(_)
SumSeq(s) == IF s = <<>> THEN 0 ELSE Head(s) + SumSeq(Tail(s))

Max(S) == CHOOSE m \in S : \A n \in S : m >= n
Min(S) == CHOOSE m \in S : \A n \in S : m <= n

Perms(s) ==
    { [i \in 1..Len(s) |-> s[f[i]]] :
        f \in { g \in [1..Len(s) -> 1..Len(s)] :
                  \A i, j \in 1..Len(s) : i # j => g[i] # g[j] } }

IndexOf(s, id) ==
    IF \E i \in 1..Len(s) : s[i]._id = id
    THEN CHOOSE i \in 1..Len(s) : s[i]._id = id
    ELSE 0

RemoveAt(s, k) == [i \in 1..(Len(s) - 1) |-> IF i < k THEN s[i] ELSE s[i + 1]]

----------------------------------------------------------------------------
(* The Student model: schema and store calls *)

Has(b, k) == k \in DOMAIN b

\* Schema validation and casting of a body: marks is a number.
Valid(b) == Has(b, "marks") => b.marks # NaN

NewDoc(b, id, t) ==
    [_id |-> id, name |-> b.name, marks |-> b.marks, course |-> b.course,
     city |-> b.city, subjects |-> b.subjects, enrolled |-> b.enrolled,
     createdAt |-> t]

\* The identifier a new document gets: the body's own, or a fresh one.
FreshId(u) == CHOOSE i \in Ids : i \notin u /\ \A j \in Ids : j \notin u => i <= j

Threw(msg, s) == [threw |-> TRUE, error |-> msg, value |-> NULL, store |-> s]
Returned(v, s) == [threw |-> FALSE, error |-> "", value |-> v, store |-> s]

\* Student.create(body) at time t.
StudentCreate(s, u, b, t) ==
    IF ~Valid(b) THEN Threw("ValidationError", s)
    ELSE LET id == IF Has(b, "_id") THEN b._id ELSE FreshId(u)
             doc == NewDoc(b, id, t)
         IN  IF IndexOf(s, id) # 0 THEN Threw("E11000 duplicate key", s)
             ELSE Returned(doc, Append(s, doc))

\* Student.insertMany(bodies): every body is validated first; the documents
\* are then inserted in order and the first store error ends the batch.
RECURSIVE InsertOrdered(_, _, _, _, _)
InsertOrdered(s, u, bs, ts, done) ==
    IF bs = <<>> THEN Returned(done, s)
    ELSE LET r == StudentCreate(s, u, Head(bs), Head(ts))
         IN  IF r.threw THEN Threw(r.error, s)
             ELSE InsertOrdered(r.store, u \cup {r.value._id}, Tail(bs),
                                Tail(ts), Append(done, r.value))

StudentInsertMany(s, u, bs, ts) ==
    IF \E i \in 1..Len(bs) : ~Valid(bs[i]) THEN Threw("ValidationError", s)
    ELSE InsertOrdered(s, u, bs, ts, <<>>)

\* Student.findById(id)
StudentFindById(s, id) ==
    IF ~WellFormed(id) THEN Threw("CastError", s)
    ELSE IF IndexOf(s, id) = 0 THEN Returned(NULL, s)
    ELSE Returned(s[IndexOf(s, id)], s)

\* Student.findByIdAndDelete(id)
StudentFindByIdAndDelete(s, id) ==
    IF ~WellFormed(id) THEN Threw("CastError", s)
    ELSE IF IndexOf(s, id) = 0 THEN Returned(NULL, s)
    ELSE Returned(s[IndexOf(s, id)], RemoveAt(s, IndexOf(s, id)))

----------------------------------------------------------------------------
(* Responses *)

Response(op, req, status, body) ==
    [op |-> op, req |-> req, status |-> status, body |-> body]

Failure(op, req, status, msg) ==
    Response(op, req, status, [success |-> FALSE, error |-> msg])

NotFound(op, req) == Failure(op, req, 404, "Student not found")

----------------------------------------------------------------------------
(* Query construction and matching *)

Truthy(str) == str # <<>>

DigitChars == <<"0", "1", "2", "3", "4", "5", "6", "7", "8", "9">>
IsDigit(c) == \E i \in 1..Len(DigitChars) : DigitChars[i] = c
DigitVal(c) == (CHOOSE i \in 1..Len(DigitChars) : DigitChars[i] = c) - 1

RECURSIVE ParseDigits(_, _)
ParseDigits(str, acc) ==
    IF str = <<>> \/ ~IsDigit(Head(str)) THEN acc
    ELSE ParseDigits(Tail(str), acc * 10 + DigitVal(Head(str)))

\* parseInt: the leading decimal digits, NaN when there is none.
parseInt(str) ==
    IF str = <<>> \/ ~IsDigit(Head(str)) THEN NaN ELSE ParseDigits(str, 0)

RECURSIVE SplitAcc(_, _, _)
SplitAcc(str, cur, out) ==
    IF str = <<>> THEN Append(out, cur)
    ELSE IF Head(str) = "," THEN SplitAcc(Tail(str), <<>>, Append(out, cur))
    ELSE SplitAcc(Tail(str), Append(cur, Head(str)), out)

\* String.prototype.split(",")
split(str) == SplitAcc(str, <<>>, <<>>)

Without(f, k) == [x \in DOMAIN f \ {k} |-> f[x]]

EmptyQuery == [x \in {} |-> 0]

\* Variants of the query construction: the city as one more clause, and the
\* marks clause kept beside the $or.
BuildQueryAndCity(minMarks, courses, city) ==
    LET q1 == IF Truthy(minMarks)
              THEN [marks |-> [gte |-> parseInt(minMarks)]] ELSE EmptyQuery
        q2 == IF Truthy(courses)
              THEN q1 @@ [course |-> [in |-> split(courses)]] ELSE q1
    IN  IF city # "" THEN q2 @@ [city |-> city] ELSE q2

BuildQueryKeepMarks(minMarks, courses, city) ==
    LET q1 == IF Truthy(minMarks)
              THEN [marks |-> [gte |-> parseInt(minMarks)]] ELSE EmptyQuery
        q2 == IF Truthy(courses)
              THEN q1 @@ [course |-> [in |-> split(courses)]] ELSE q1
    IN  IF city # "" /\ Truthy(minMarks)
        THEN q2 @@ [or |-> << [city |-> city],
                              [marks |-> [gte |-> parseInt(minMarks)]] >>]
        ELSE q2

\* The query object the filter route builds from req.query.
BuildQuery(minMarks, courses, city) ==
    LET q1 == IF Truthy(minMarks)
              THEN [marks |-> [gte |-> parseInt(minMarks)]] ELSE EmptyQuery
        q2 == IF Truthy(courses)
              THEN q1 @@ [course |-> [in |-> split(courses)]] ELSE q1
    IN  IF city # "" /\ Truthy(minMarks)
        THEN Without(q2 @@ [or |-> << [city |-> city],
                                      [marks |-> [gte |-> parseInt(minMarks)]] >>],
                     "marks")
        ELSE q2

\* Casting a query against the schema: a marks bound must be a number.
RECURSIVE CastFails(_)
CastFails(q) ==
    \/ Has(q, "marks") /\ q.marks.gte = NaN
    \/ Has(q, "or") /\ \E i \in 1..Len(q.or) : CastFails(q.or[i])

\* A document matches a query when every clause of it holds.
RECURSIVE Matches(_, _)
Matches(doc, q) ==
    /\ Has(q, "marks") => doc.marks >= q.marks.gte
    /\ Has(q, "course") => doc.course \in Range(q.course.in)
    /\ Has(q, "city") => doc.city = q.city
    /\ Has(q, "or") => \E i \in 1..Len(q.or) : Matches(doc, q.or[i])

\* Student.find(query)
StudentFind(s, q) ==
    IF CastFails(q) THEN Threw("CastError", s)
    ELSE LET Test(doc) == Matches(doc, q)
         IN  Returned(SelectSeq(s, Test), s)

----------------------------------------------------------------------------
(* Name search *)

UpperChars == <<"A", "B", "N", "O">>
LowerChars == <<"a", "b", "n", "o">>

toLower(c) ==
    IF \E i \in 1..Len(UpperChars) : UpperChars[i] = c
    THEN LowerChars[CHOOSE i \in 1..Len(UpperChars) : UpperChars[i] = c]
    ELSE c

LowerStr(str) == [i \in 1..Len(str) |-> toLower(str[i])]

\* A pattern with an unclosed group does not compile.
PatternInvalid(pat) == \E i \in 1..Len(pat) : pat[i] = "("

\* A pattern of plain letters matches wherever it occurs in the text.
Occurs(pat, text) ==
    \E k \in 0..(Len(text) - Len(pat)) :
        \A i \in 1..Len(pat) : text[k + i] = pat[i]

RegexMatch(pat, text) == Occurs(LowerStr(pat), LowerStr(text))

\* Student.find({ name: { $regex: pat, $options: "i" } })
StudentFindByName(s, pat) ==
    IF PatternInvalid(pat) THEN Threw("Regular expression is invalid", s)
    ELSE LET Test(doc) == RegexMatch(pat, doc.name)
         IN  Returned(SelectSeq(s, Test), s)

----------------------------------------------------------------------------
(* Updates *)

\* Paths the schema never lets an update write.
ImmutablePaths == {"createdAt"}

ApplySet(doc, b) ==
    [k \in DOMAIN doc |->
        IF Has(b, k) /\ k \notin ImmutablePaths THEN b[k] ELSE doc[k]]

\* A replacement of the matched document's fields by the body's, all of them.
StudentFindByIdAndReplaceFields(s, id, b) ==
    IF ~WellFormed(id) THEN Threw("CastError", s)
    ELSE IF ~Valid(b) THEN Threw("ValidationError", s)
    ELSE LET k == IndexOf(s, id)
             doc == [f \in DOMAIN s[k] |-> IF Has(b, f) THEN b[f] ELSE s[k][f]]
         IN  IF k = 0 THEN Returned(NULL, s)
             ELSE Returned(doc, [s EXCEPT ![k] = doc])

\* Student.findByIdAndUpdate(id, body, { new: true, runValidators: true }):
\* the identifier and the body are cast and validated before the store is
\* asked; the store refuses to give a matched document another _id.
StudentFindByIdAndUpdate(s, id, b) ==
    IF ~WellFormed(id) THEN Threw("CastError", s)
    ELSE IF ~Valid(b) THEN Threw("ValidationError", s)
    ELSE LET k == IndexOf(s, id)
         IN  IF k = 0 THEN Returned(NULL, s)
             ELSE IF Has(b, "_id") /\ b._id # id
                  THEN Threw("immutable field '_id'", s)
                  ELSE Returned(ApplySet(s[k], b),
                                [s EXCEPT ![k] = ApplySet(s[k], b)])

IncBy == 5

\* The fixed update document of the operators route.
OperatorUpdate ==
    [inc |-> [marks |-> IncBy], push |-> [subjects |-> "AI"],
     set |-> [enrolled |-> TRUE]]

\* $addToSet in place of $push.
ApplyOperatorsAddToSet(doc, u) ==
    [doc EXCEPT !.marks = @ + u.inc.marks,
                !.subjects = IF u.push.subjects \in Range(@) THEN @
                             ELSE Append(@, u.push.subjects),
                !.enrolled = u.set.enrolled]

ApplyOperators(doc, u) ==
    [doc EXCEPT !.marks = @ + u.inc.marks,
                !.subjects = Append(@, u.push.subjects),
                !.enrolled = u.set.enrolled]

\* Student.findByIdAndUpdate(id, { $inc, $push, $set }, { new: true })
StudentFindByIdAndUpdateOperators(s, id, u) ==
    IF ~WellFormed(id) THEN Threw("CastError", s)
    ELSE LET k == IndexOf(s, id)
         IN  IF k = 0 THEN Returned(NULL, s)
             ELSE Returned(ApplyOperators(s[k], u),
                           [s EXCEPT ![k] = ApplyOperators(s[k], u)])

----------------------------------------------------------------------------
(* Sorting and aggregation *)

\* sort({ createdAt: 1 })
SortByCreatedAtAscending(s) ==
    { p \in Perms(s) :
        \A i \in 1..(Len(p) - 1) : p[i].createdAt <= p[i + 1].createdAt }

\* find().sort({ createdAt: -1 }): the order among equal keys is the store's.
SortByCreatedAt(s) ==
    { p \in Perms(s) :
        \A i \in 1..(Len(p) - 1) : p[i].createdAt >= p[i + 1].createdAt }

RECURSIVE GCD(_, _)
GCD(a, b) == IF b = 0 THEN a ELSE GCD(b, a % b)

\* A quotient, kept exact as a fraction in lowest terms.
Quotient(a, b) == [num |-> a \div GCD(a, b), den |-> b \div GCD(a, b)]

RatGeq(x, y) == x.num * y.den >= y.num * x.den

\* The distinct $course values in order of first appearance.
RECURSIVE GroupKeys(_, _)
GroupKeys(s, seen) ==
    IF s = <<>> THEN seen
    ELSE IF Head(s).course \in Range(seen) THEN GroupKeys(Tail(s), seen)
    ELSE GroupKeys(Tail(s), Append(seen, Head(s).course))

MarksOf(s, c) ==
    LET InGroup(doc) == doc.course = c
        g == SelectSeq(s, InGroup)
    IN  [i \in 1..Len(g) |-> g[i].marks]

\* One $group accumulator row.
GroupRow(s, c) ==
    LET m == MarksOf(s, c)
    IN  [_id |-> c, totalStudents |-> Len(m),
         averageMarks |-> Quotient(SumSeq(m), Len(m)),
         maxMarks |-> Max(Range(m)), minMarks |-> Min(Range(m))]

GroupStage(s) ==
    LET keys == GroupKeys(s, <<>>)
    IN  [i \in 1..Len(keys) |-> GroupRow(s, keys[i])]

SortStageAscending(rows) ==
    { p \in Perms(rows) :
        \A i \in 1..(Len(p) - 1) :
            RatGeq(p[i + 1].averageMarks, p[i].averageMarks) }

\* $sort: { averageMarks: -1 }
SortStage(rows) ==
    { p \in Perms(rows) :
        \A i \in 1..(Len(p) - 1) :
            RatGeq(p[i].averageMarks, p[i + 1].averageMarks) }

\* Student.aggregate([ $group, $sort ])
StudentAggregate(s) == SortStage(GroupStage(s))

----------------------------------------------------------------------------
(* History bookkeeping (not program state) *)

IdsOf(docs) == { docs[k]._id : k \in 1..Len(docs) }

DocOf(docs, i) == docs[CHOOSE k \in 1..Len(docs) : docs[k]._id = i]

Recorded(ins) ==
    /\ nCreated' = IF deleted = {} THEN nCreated + Len(ins) ELSE nCreated
    /\ used' = used \cup IdsOf(ins)
    /\ recreated' = recreated \cup (IdsOf(ins) \cap deleted)
    /\ deleted' = deleted
    /\ born' = [i \in Ids |->
                  IF i \in IdsOf(ins) THEN DocOf(ins, i).createdAt ELSE born[i]]
    /\ base' = [i \in Ids |-> IF i \in IdsOf(ins) THEN DocOf(ins, i) ELSE base[i]]
    /\ opCount' = [i \in Ids |-> IF i \in IdsOf(ins) THEN 0 ELSE opCount[i]]

----------------------------------------------------------------------------
(* The handlers, one request at a time *)

\* POST /api/v1/students/create
Create(b, t) ==
    /\ (Valid(b) /\ ~Has(b, "_id")) => \E i \in Ids : i \notin used
    /\ LET r == StudentCreate(store, used, b, t)
       IN  /\ store' = r.store
           /\ IF r.threw
              THEN /\ resp' = Failure("create", b, 400, r.error)
                   /\ Recorded(<<>>)
                   /\ clock' = clock
              ELSE /\ resp' = Response("create", b, 201,
                                       [success |-> TRUE, data |-> r.value])
                   /\ Recorded(<<r.value>>)
                   /\ clock' = t
    /\ UNCHANGED inflight

\* POST /api/v1/students/create/bulk
CreateBulk(bs, ts) ==
    /\ Cardinality(Ids \ used) >= Len(bs)
    /\ LET r == StudentInsertMany(store, used, bs, ts)
       IN  /\ store' = r.store
           /\ Recorded(SubSeq(r.store, Len(store) + 1, Len(r.store)))
           /\ resp' = IF r.threw
                      THEN Failure("bulk", bs, 400, r.error)
                      ELSE Response("bulk", bs, 201,
                                    [success |-> TRUE, count |-> Len(r.value),
                                     data |-> r.value])
    /\ clock' = IF store' = store THEN clock ELSE store'[Len(store')].createdAt
    /\ UNCHANGED inflight

\* GET /api/v1/students/get
ListAll ==
    /\ \E students \in SortByCreatedAt(store) :
          resp' = Response("list", <<>>, 200,
                           [success |-> TRUE, count |-> Len(students),
                            data |-> students])
    /\ UNCHANGED <<store, used, clock, inflight, hist>>

\* GET /api/v1/students/get/:id
GetById(id) ==
    /\ LET r == StudentFindById(store, id)
       IN  resp' = IF r.threw THEN Failure("get", id, 500, r.error)
                   ELSE IF r.value = NULL THEN NotFound("get", id)
                   ELSE Response("get", id, 200,
                                 [success |-> TRUE, data |-> r.value])
    /\ UNCHANGED <<store, used, clock, inflight, hist>>

\* GET /api/v1/students/filter
Filter(minMarks, courses, city) ==
    /\ LET req == [minMarks |-> minMarks, courses |-> courses, city |-> city]
           r == StudentFind(store, BuildQuery(minMarks, courses, city))
       IN  resp' = IF r.threw THEN Failure("filter", req, 500, r.error)
                   ELSE Response("filter", req, 200,
                            [success |-> TRUE,
                             description |->
                               "Filtered students using $gte, $in, $or operators",
                             count |-> Len(r.value), data |-> r.value])
    /\ UNCHANGED <<store, used, clock, inflight, hist>>

\* GET /api/v1/students/search/:name
Search(name) ==
    /\ LET r == StudentFindByName(store, name)
       IN  resp' = IF r.threw THEN Failure("search", name, 500, r.error)
                   ELSE Response("search", name, 200,
                            [success |-> TRUE,
                             description |->
                               <<"Students matching '", name,
                                 "' (case-insensitive)">>,
                             count |-> Len(r.value), data |-> r.value])
    /\ UNCHANGED <<store, used, clock, inflight, hist>>

\* How many times the operators route has pushed onto a document.
Pushed(doc) ==
    Cardinality({ i \in 1..Len(doc.subjects) :
                    doc.subjects[i] = OperatorUpdate.push.subjects })

\* PUT /api/v1/students/update/:id
UpdateWhole(id, b) ==
    /\ LET req == [id |-> id, body |-> b]
           r == StudentFindByIdAndUpdate(store, id, b)
       IN  /\ store' = r.store
           /\ resp' = IF r.threw THEN Failure("update", req, 400, r.error)
                      ELSE IF r.value = NULL THEN NotFound("update", req)
                      ELSE Response("update", req, 200,
                                    [success |-> TRUE, data |-> r.value])
           /\ IF ~r.threw /\ r.value # NULL
              THEN /\ base' = [base EXCEPT ![id] = r.value]
                   /\ opCount' = [opCount EXCEPT ![id] = 0]
              ELSE UNCHANGED <<base, opCount>>
    /\ UNCHANGED <<used, clock, inflight, nCreated, deleted, recreated, born>>

\* The same without the check for a missing document.
OperatorsReplyUnchecked(id, r) ==
    IF r.threw THEN Failure("operators", id, 400, r.error)
    ELSE Response("operators", id, 200,
                  [success |-> TRUE,
                   description |-> "Updated using $inc, $push, $set operators",
                   data |-> r.value])

\* The operators route's response to the outcome r of its store call.
OperatorsReply(id, r) ==
    IF r.threw THEN Failure("operators", id, 400, r.error)
    ELSE IF r.value = NULL THEN NotFound("operators", id)
    ELSE Response("operators", id, 200,
                  [success |-> TRUE,
                   description |-> "Updated using $inc, $push, $set operators",
                   data |-> r.value])

\* PUT /api/v1/students/update/:id/operators
UpdateOperators(id) ==
    /\ IndexOf(store, id) # 0 => Pushed(store[IndexOf(store, id)]) < MaxOps
    /\ LET r == StudentFindByIdAndUpdateOperators(store, id, OperatorUpdate)
       IN  /\ store' = r.store
           /\ resp' = OperatorsReply(id, r)
           /\ opCount' = IF ~r.threw /\ r.value # NULL
                         THEN [opCount EXCEPT ![id] = @ + 1] ELSE opCount
    /\ UNCHANGED <<used, clock, inflight, nCreated, deleted, recreated, born,
                   base>>

\* The delete route's response to the outcome r of its store call.
DeleteReply(id, r) ==
    IF r.threw THEN Failure("delete", id, 500, r.error)
    ELSE IF r.value = NULL THEN NotFound("delete", id)
    ELSE Response("delete", id, 200,
                  [success |-> TRUE, message |-> "Student deleted successfully",
                   data |-> r.value])

\* DELETE /api/v1/students/delete/:id
Delete(id) ==
    /\ LET r == StudentFindByIdAndDelete(store, id)
       IN  /\ store' = r.store
           /\ resp' = DeleteReply(id, r)
           /\ IF ~r.threw /\ r.value # NULL
              THEN /\ deleted' = deleted \cup {id}
                   /\ recreated' = recreated \ {id}
                   /\ born' = [born EXCEPT ![id] = 0]
                   /\ base' = [base EXCEPT ![id] = NULL]
                   /\ opCount' = [opCount EXCEPT ![id] = 0]
              ELSE UNCHANGED <<deleted, recreated, born, base, opCount>>
    /\ UNCHANGED <<used, clock, inflight, nCreated>>

\* GET /api/v1/students/stats
Stats ==
    /\ \E result \in StudentAggregate(store) :
          resp' = Response("stats", <<>>, 200,
                    [success |-> TRUE,
                     description |->
                       "Course-wise statistics using $group, $sum, $avg, $max, $min",
                     data |-> result])
    /\ UNCHANGED <<store, used, clock, inflight, hist>>

----------------------------------------------------------------------------
(* Specification: requests handled one after another *)

BulkBodies == UNION { [1..n -> CreateBodies] : n \in 0..MaxBulk }

Times(n, from) ==
    { ts \in [1..n -> from..MaxClock] :
        \A i \in 1..(n - 1) : ts[i] <= ts[i + 1] }

Init ==
    /\ store = <<>>
    /\ used = {}
    /\ clock = 0
    /\ resp = Response("none", <<>>, 0, [success |-> TRUE])
    /\ inflight = <<>>
    /\ nCreated = 0
    /\ deleted = {}
    /\ recreated = {}
    /\ born = [i \in Ids |-> 0]
    /\ base = [i \in Ids |-> NULL]
    /\ opCount = [i \in Ids |-> 0]

Next ==
    \/ \E b \in CreateBodies, t \in clock..MaxClock : Create(b, t)
    \/ \E bs \in BulkBodies : \E ts \in Times(Len(bs), clock) : CreateBulk(bs, ts)
    \/ ListAll
    \/ \E id \in ReqIds : GetById(id)
    \/ \E q \in FilterRequests : Filter(q[1], q[2], q[3])
    \/ \E name \in Patterns : Search(name)
    \/ \E id \in ReqIds, b \in UpdateBodies : UpdateWhole(id, b)
    \/ \E id \in ReqIds : UpdateOperators(id)
    \/ \E id \in ReqIds : Delete(id)
    \/ Stats

Spec == Init /\ [][Next]_vars

----------------------------------------------------------------------------
(* Specification: the read routes over every small collection *)

QueryBodies ==
    { [name |-> IF c = "Mumbai" THEN An ELSE Bo, marks |-> m, course |-> k,
       city |-> c, subjects |-> <<>>, enrolled |-> FALSE] :
        m \in {40, 50, 60}, k \in {CourseM, CourseC}, c \in {"Mumbai", "Pune"} }

MinMarksValues == { <<>>, <<"5", "0">>, <<"x">> }
CoursesValues == { <<>>, <<"M">>, <<"P", ",", "C">> }
CityValues == { "", "Mumbai" }
SearchValues == { <<"a", "N">>, <<"o">>, <<"(">> }

\* The collection after a bulk insertion of bs at time 0.
Inserted(bs) == StudentInsertMany(<<>>, {}, bs, [i \in 1..Len(bs) |-> 0]).store

InitWith(s) ==
    /\ store = s
    /\ used = IdsOf(s)
    /\ clock = 0
    /\ resp = Response("none", <<>>, 0, [success |-> TRUE])
    /\ nCreated = Len(s)
    /\ deleted = {}
    /\ recreated = {}
    /\ born = [i \in Ids |-> 0]
    /\ base = [i \in Ids |-> IF i \in IdsOf(s) THEN DocOf(s, i) ELSE NULL]
    /\ opCount = [i \in Ids |-> 0]

InitQuery ==
    /\ \E n \in 0..MaxIds : \E bs \in [1..n -> QueryBodies] : InitWith(Inserted(bs))
    /\ inflight = <<>>

NextQuery ==
    \/ \E m \in MinMarksValues, c \in CoursesValues, city \in CityValues :
          Filter(m, c, city)
    \/ \E name \in SearchValues : Search(name)
    \/ Stats
    \/ ListAll

SpecQuery == InitQuery /\ [][NextQuery]_vars

----------------------------------------------------------------------------
(* Specification: operator-update and delete requests handled concurrently. *)
(* A handler runs to its await, the store performs the one call it issued,  *)
(* and the handler resumes with the outcome and responds.                   *)

Slots == 1..MaxInflight

Idle == [op |-> "none", id |-> 0, pc |-> "idle", r |-> NULL, res |-> NULL]

\* A request arrives and its handler issues its store call.
Receive(k, op, id) ==
    /\ inflight[k].pc = "idle"
    /\ k > 1 => inflight[k - 1].pc # "idle"
    /\ inflight' = [inflight EXCEPT ![k] = [Idle EXCEPT !.op = op, !.id = id,
                                                        !.pc = "awaiting"]]
    /\ UNCHANGED <<store, used, clock, resp, hist>>

\* The store call of request k, split into a read and a later write.
StoreExecReadThenWrite(k) ==
    \/ /\ inflight[k].pc = "awaiting"
       /\ inflight' = [inflight EXCEPT ![k].pc = "read",
                          ![k].r = StudentFindById(store, inflight[k].id)]
       /\ UNCHANGED <<store, used, clock, resp, hist>>
    \/ /\ inflight[k].pc = "read"
       /\ LET id == inflight[k].id
              r == inflight[k].r
              i == IndexOf(store, id)
              out == IF inflight[k].op = "operators" /\ r.value # NULL
                     THEN ApplyOperators(r.value, OperatorUpdate) ELSE r.value
          IN  /\ store' = IF r.value = NULL \/ i = 0 THEN store
                          ELSE IF inflight[k].op = "operators"
                               THEN [store EXCEPT ![i] = out]
                               ELSE RemoveAt(store, i)
              /\ inflight' = [inflight EXCEPT ![k].pc = "resolved",
                                              ![k].r = Returned(out, store')]
       /\ UNCHANGED <<used, clock, resp, hist>>

\* The store performs the call of request k in one step.
StoreExec(k) ==
    /\ inflight[k].pc = "awaiting"
    /\ LET id == inflight[k].id
           r == IF inflight[k].op = "operators"
                THEN StudentFindByIdAndUpdateOperators(store, id, OperatorUpdate)
                ELSE StudentFindByIdAndDelete(store, id)
       IN  /\ store' = r.store
           /\ inflight' = [inflight EXCEPT ![k].pc = "resolved", ![k].r = r]
    /\ UNCHANGED <<used, clock, resp, hist>>

\* The handler of request k resumes and responds.
Respond(k) ==
    /\ inflight[k].pc = "resolved"
    /\ LET id == inflight[k].id
           res == IF inflight[k].op = "operators"
                  THEN OperatorsReply(id, inflight[k].r)
                  ELSE DeleteReply(id, inflight[k].r)
       IN  inflight' = [inflight EXCEPT ![k].pc = "responded", ![k].res = res]
    /\ UNCHANGED <<store, used, clock, resp, hist>>

InitConc ==
    /\ \E n \in 1..MaxIds : \E bs \in [1..n -> {BodyA}] : InitWith(Inserted(bs))
    /\ inflight = [k \in Slots |-> Idle]

NextConc ==
    \/ \E k \in Slots, op \in {"operators", "delete"}, id \in Ids : Receive(k, op, id)
    \/ \E k \in Slots : StoreExec(k)
    \/ \E k \in Slots : Respond(k)

SpecConc == InitConc /\ [][NextConc]_vars

----------------------------------------------------------------------------
(* Vocabulary of the properties *)

\* The decimal numeral of n, for n below 100.
Numeral(n) ==
    IF n < 10 THEN <<DigitChars[n + 1]>>
    ELSE <<DigitChars[(n \div 10) + 1], DigitChars[(n % 10) + 1]>>

IsNumeral(str) == \E n \in 0..99 : Numeral(n) = str
NumeralValue(str) == CHOOSE n \in 0..99 : Numeral(n) = str

\* e is one of the items of the comma-separated list str.
InList(e, str) ==
    \E i \in 1..(Len(str) + 1) : \E j \in (i - 1)..Len(str) :
        /\ SubSeq(str, i, j) = e
        /\ i = 1 \/ str[i - 1] = ","
        /\ j = Len(str) \/ str[j + 1] = ","
        /\ \A k \in i..j : str[k] # ","

\* data holds exactly the stored documents that satisfy P, each once.
ExactlyThose(data, P(_)) ==
    /\ Range(data) = { d \in Range(store) : P(d) }
    /\ Len(data) = Cardinality({ d \in Range(store) : P(d) })

Succeeded(r) == r.status = 200 /\ r.body.success

IsNotFound(r) ==
    /\ r.status = 404
    /\ r.body.success = FALSE
    /\ r.body.error = "Student not found"

\* The identifier a by-identifier request named.
ReqId(r) == IF r.op = "update" THEN r.req.id ELSE r.req

ById == {"get", "update", "operators", "delete"}

RECURSIVE Repeat(_, _)
Repeat(x, n) == IF n = 0 THEN <<>> ELSE Append(Repeat(x, n - 1), x)

RECURSIVE SumOver(_, _)
SumOver(I, f) ==
    IF I = {} THEN 0
    ELSE LET i == CHOOSE x \in I : TRUE IN f[i] + SumOver(I \ {i}, f)

----------------------------------------------------------------------------
(* Properties *)

\* C1: a filter request with a numeric minMarks returns exactly the stored
\* documents with marks >= minMarks and course in the list when courses is
\* given and city is not; and, when city is given, exactly those with
\* (city = the given city or marks >= minMarks), which must also have their
\* course in the list when courses is given.
C1_FilterPredicate ==
    (resp.op = "filter" /\ IsNumeral(resp.req.minMarks)) =>
        LET m == NumeralValue(resp.req.minMarks)
            Listed(d) == InList(d.course, resp.req.courses)
            AndPick(d) == d.marks >= m /\ Listed(d)
            OrPick(d) == /\ d.city = resp.req.city \/ d.marks >= m
                         /\ resp.req.courses # <<>> => Listed(d)
        IN  /\ Succeeded(resp)
            /\ resp.body.count = Len(resp.body.data)
            /\ (resp.req.courses # <<>> /\ resp.req.city = "") =>
                   ExactlyThose(resp.body.data, AndPick)
            /\ resp.req.city # "" => ExactlyThose(resp.body.data, OrPick)

\* A filter with all three parameters answered with a document of the city
\* whose marks are below the threshold, while another document of the city
\* is left out for its course.
C1_Witness ==
    /\ resp.op = "filter"
    /\ resp.req.minMarks = <<"5", "0">>
    /\ resp.req.courses # <<>>
    /\ resp.req.city = "Mumbai"
    /\ \E d \in Range(resp.body.data) : d.city = "Mumbai" /\ d.marks < 50
    /\ \E d \in Range(store) :
          d.city = "Mumbai" /\ ~InList(d.course, resp.req.courses)

\* C10: a filter request without minMarks returns exactly the stored
\* documents whose course is in the list (all of them when courses is absent
\* too), whatever city it gives.
C10_CityAloneIgnored ==
    (resp.op = "filter" /\ resp.req.minMarks = <<>>) =>
        LET Pick(d) == resp.req.courses # <<>> => InList(d.course, resp.req.courses)
        IN  /\ Succeeded(resp)
            /\ ExactlyThose(resp.body.data, Pick)
            /\ resp.req.courses = <<>> =>
                   /\ Range(resp.body.data) = Range(store)
                   /\ resp.body.count = Len(store)

\* A filter by city alone answered with a document of another city.
C10_Witness ==
    /\ resp.op = "filter"
    /\ resp.req.minMarks = <<>>
    /\ resp.req.city = "Mumbai"
    /\ \E d \in Range(resp.body.data) : d.city # "Mumbai"

\* C8: the stats response has exactly one row per course present in the
\* store; a row's count, maximum and minimum are those of the documents of
\* its course, its average times its count is the sum of their marks; the
\* counts add up to the number of documents; and no row has a smaller
\* average than a row after it.
C8_Stats ==
    resp.op = "stats" =>
        LET rows == resp.body.data
            Of(c) == { i \in 1..Len(store) : store[i].course = c }
            marks == [i \in 1..Len(store) |-> store[i].marks]
            counts == [i \in 1..Len(rows) |-> rows[i].totalStudents]
        IN  /\ Succeeded(resp)
            /\ { rows[i]._id : i \in 1..Len(rows) } =
                   { store[i].course : i \in 1..Len(store) }
            /\ \A i, j \in 1..Len(rows) : i # j => rows[i]._id # rows[j]._id
            /\ \A i \in 1..Len(rows) :
                  LET I == Of(rows[i]._id)
                  IN  /\ rows[i].totalStudents = Cardinality(I)
                      /\ rows[i].maxMarks \in { marks[k] : k \in I }
                      /\ \A k \in I : marks[k] <= rows[i].maxMarks
                      /\ rows[i].minMarks \in { marks[k] : k \in I }
                      /\ \A k \in I : marks[k] >= rows[i].minMarks
                      /\ rows[i].averageMarks.num * Cardinality(I) =
                             rows[i].averageMarks.den * SumOver(I, marks)
                      /\ rows[i].averageMarks.den > 0
            /\ SumOver(1..Len(rows), counts) = Len(store)
            /\ \A i \in 1..(Len(rows) - 1) :
                  rows[i].averageMarks.num * rows[i + 1].averageMarks.den >=
                      rows[i + 1].averageMarks.num * rows[i].averageMarks.den

\* Statistics of two courses, the course inserted second having the higher
\* average and so coming first.
C8_Witness ==
    /\ resp.op = "stats"
    /\ Len(resp.body.data) = 2
    /\ Len(store) = 2
    /\ store[1].marks < store[2].marks
    /\ resp.body.data[1]._id = store[2].course


\* C5: while no delete has succeeded, list-all answers with count = the
\* number of documents inserted so far and with exactly the stored
\* documents, no document having an earlier createdAt than one after it.
C5_ListAll ==
    (resp.op = "list" /\ deleted = {}) =>
        LET data == resp.body.data
            Stored(d) == TRUE
        IN  /\ Succeeded(resp)
            /\ resp.body.count = nCreated
            /\ Len(data) = nCreated
            /\ ExactlyThose(data, Stored)
            /\ \A i \in 1..(Len(data) - 1) :
                  data[i].createdAt >= data[i + 1].createdAt

\* A listing of two documents in which the one inserted later comes first.
C5_Witness ==
    /\ resp.op = "list"
    /\ deleted = {}
    /\ nCreated = 2
    /\ Len(resp.body.data) = 2
    /\ resp.body.data[1].createdAt > resp.body.data[2].createdAt
    /\ resp.body.data[1] = store[2]

C4_OperatorsCumulative ==
    /\ \A i \in 1..Len(store) :
          LET d == store[i]
              b == base[d._id]
              k == opCount[d._id]
          IN  d = [b EXCEPT !.marks = @ + 5 * k,
                            !.subjects = @ \o Repeat("AI", k),
                            !.enrolled = IF k > 0 THEN TRUE ELSE @]
    /\ (resp.op = "operators" /\ Succeeded(resp)) =>
          /\ IndexOf(store, resp.req) # 0
          /\ resp.body.data = DocOf(store, resp.req)

\* The second operator-update in a row of one of two stored documents.
C4_Witness ==
    /\ resp.op = "operators"
    /\ Succeeded(resp)
    /\ opCount[resp.req] = 2
    /\ Len(store) = 2
    /\ resp.body.data.subjects = <<"ML", "AI", "AI">>

\* The step is the handling of a delete request for id.
DeleteOf(id) == resp'.op = "delete" /\ resp'.req = id

Removes(id) ==
    /\ Range(store') = Range(store) \ { DocOf(store, id) }
    /\ Len(store') = Len(store) - 1

\* C3 as stated: a delete of a stored identifier responds 200 with the
\* document and removes it, and a delete of an identifier that a delete has
\* removed before responds 404 and changes nothing.
C3_Original ==
    [][\A id \in Ids : DeleteOf(id) =>
          /\ IndexOf(store, id) # 0 =>
                /\ Succeeded(resp')
                /\ resp'.body.data = DocOf(store, id)
                /\ Removes(id)
          /\ id \in deleted => (IsNotFound(resp') /\ store' = store)]_vars

\* C3 amended: a delete of a stored identifier responds 200 with the
\* document and removes it, and a delete of an identifier that a delete has
\* removed and no insertion has brought back since responds 404 and changes
\* nothing.
C3_DeleteOneShot ==
    [][\A id \in Ids : DeleteOf(id) =>
          /\ IndexOf(store, id) # 0 =>
                /\ Succeeded(resp')
                /\ resp'.body.data = DocOf(store, id)
                /\ Removes(id)
          /\ id \in deleted \ recreated =>
                (IsNotFound(resp') /\ store' = store)]_vars

\* A delete answered 404 for an identifier an earlier delete removed, after
\* other requests in between left another document in the store.
C3_Witness ==
    /\ resp.op = "delete"
    /\ IsNotFound(resp)
    /\ resp.req \in deleted \ recreated
    /\ Len(store) = 1

\* C7 as stated: a get-by-id, whole-update, operator-update or delete whose
\* well-formed identifier matches no stored document responds 404 with
\* "Student not found" and leaves the store as it was.
C7_Original ==
    [][(resp'.op \in ById /\ WellFormed(ReqId(resp'))
          /\ IndexOf(store, ReqId(resp')) = 0) =>
              (IsNotFound(resp') /\ store' = store)]_vars

\* C7 amended: the same, for a whole-update only when its body passes the
\* schema's validation; with a body that does not, the response is 400 and
\* the store is left as it was all the same.
C7_NotFound ==
    [][(resp'.op \in ById /\ WellFormed(ReqId(resp'))
          /\ IndexOf(store, ReqId(resp')) = 0) =>
              /\ store' = store
              /\ IF resp'.op = "update" /\ ~Valid(resp'.req.body)
                 THEN resp'.status = 400 /\ resp'.body.success = FALSE
                 ELSE IsNotFound(resp')]_vars

\* An operator-update answered 404 for an identifier never stored, beside a
\* stored document.
C7_Witness ==
    /\ resp.op = "operators"
    /\ IsNotFound(resp)
    /\ WellFormed(resp.req)
    /\ resp.req \notin used
    /\ Len(store) = 1

\* The request failed on its input: a malformed identifier, a body that
\* fails validation, a pattern that does not compile, a minMarks that is no
\* number.
InputFailure(r) ==
    \/ r.op \in ById /\ ~WellFormed(ReqId(r))
    \/ r.op = "create" /\ ~Valid(r.req)
    \/ r.op = "bulk" /\ \E i \in 1..Len(r.req) : ~Valid(r.req[i])
    \/ r.op = "update" /\ ~Valid(r.req.body)
    \/ r.op = "search" /\ PatternInvalid(r.req)
    \/ r.op = "filter" /\ r.req.minMarks # <<>> /\ ~IsNumeral(r.req.minMarks)

\* C2: every request that fails on its input is answered with status 400
\* and success = false.
C2_InputFailureIs400 ==
    InputFailure(resp) => (resp.status = 400 /\ resp.body.success = FALSE)

\* C9: with requests in flight, every stored document has 5 added to its
\* marks and one "AI" appended per operator-update the store has performed
\* on it; at most one delete of an identifier is answered 200, every other
\* answered delete of it 404, and once all requested deletes of a stored
\* identifier are answered exactly one of them was answered 200.
C9_NoLostUpdate ==
    LET Performed(id) ==
            { k \in Slots : /\ inflight[k].op = "operators"
                            /\ inflight[k].id = id
                            /\ inflight[k].pc \in {"resolved", "responded"}
                            /\ inflight[k].r.value # NULL }
        Deletes(id) == { k \in Slots : inflight[k].op = "delete"
                                        /\ inflight[k].id = id }
        Answered(id) == { k \in Deletes(id) : inflight[k].pc = "responded" }
        Ok(id) == { k \in Answered(id) : Succeeded(inflight[k].res) }
    IN  /\ \A i \in 1..Len(store) :
              LET d == store[i]
                  n == Cardinality(Performed(d._id))
              IN  /\ d.marks = base[d._id].marks + 5 * n
                  /\ d.subjects = base[d._id].subjects \o Repeat("AI", n)
        /\ \A id \in Ids :
              /\ Cardinality(Ok(id)) <= 1
              /\ \A k \in Answered(id) \ Ok(id) : IsNotFound(inflight[k].res)
              /\ \A k \in Ok(id) : inflight[k].res.body.data._id = id
              /\ (base[id] # NULL /\ Deletes(id) # {}
                     /\ Answered(id) = Deletes(id)) => Cardinality(Ok(id)) = 1

\* Two deletes of one identifier answered, one 200 and one 404, and an
\* operator-update performed on the other document.
C9_Witness ==
    /\ \E j, k \in Slots :
          /\ j # k
          /\ inflight[j].op = "delete" /\ inflight[k].op = "delete"
          /\ inflight[j].id = inflight[k].id
          /\ inflight[j].pc = "responded" /\ inflight[k].pc = "responded"
          /\ Succeeded(inflight[j].res)
          /\ IsNotFound(inflight[k].res)
    /\ \E k \in Slots :
          inflight[k].op = "operators" /\ inflight[k].pc = "resolved"
              /\ inflight[k].r.value # NULL

====
